---- MODULE Spec2Model ----
(***************************************************************************)
(* A model of the pg0 Python client (sdk/python): the engine-command       *)
(* runner and its failure classification, the Pg0 handle and the module    *)
(* level verbs, InstanceInfo parsing, platform detection and the build     *)
(* scripts' binary download.                                               *)
(*                                                                         *)
(* Text is modelled as a sequence of tokens.  In stderr text a token is a  *)
(* word or the newline NL; two neighbouring words are separated by one     *)
(* blank, so a phrase such as "already running" is the two-token sequence  *)
(* <<"already", "running">> and a substring test is a test for a           *)
(* contiguous sub-sequence.  In an argument vector every argument is a     *)
(* sequence of tokens whose concatenation is the argument's text.          *)
(***************************************************************************)
EXTENDS Integers, Sequences, FiniteSets, TLC

VARIABLES
    call,       \* the arguments of the function or script run under study
    ret,        \* its result
    phase,      \* "ready" before it is applied, "done" after (the build script: its step)
    fs,         \* the files the client and the build scripts look at or write
    engine,     \* the engine's state of every instance name
    handle,     \* the fields of every Pg0 handle
    ctx,        \* where every handle's caller is with respect to a `with` block
    pend,       \* the second engine query a start() still has to make, per handle
    last        \* the last public operation performed and how it ended

pureVars == <<call, ret, phase>>

lifeVars == <<engine, handle, ctx, pend, last>>

vars == <<call, ret, phase, fs, engine, handle, ctx, pend, last>>

\* The values the variables of the instance lifecycle keep in the specifications
\* that study one function or the build script alone.
NoLifecycle ==
    /\ engine = <<>>
    /\ handle = <<>>
    /\ ctx = <<>>
    /\ pend = <<>>
    /\ last = <<>>

NoFiles == fs = <<>>

----------------------------------------------------------------------------
(* Text helpers *)

NL == "\n"

\* str.lower() on the vocabulary of the model
LowerTok(t) ==
    CASE t = "ALREADY" -> "already"
      [] t = "Not"     -> "not"
      [] t = "MUSL"    -> "musl"
      [] t = "AMD64"   -> "amd64"
      [] t = "Linux"   -> "linux"
      [] t = "Darwin"  -> "darwin"
      [] t = "Windows" -> "windows"
      [] t = "FreeBSD" -> "freebsd"
      [] OTHER         -> t

Lower(s) == [i \in 1..Len(s) |-> LowerTok(s[i])]

RECURSIVE LStrip(_)
LStrip(s) == IF s # <<>> /\ Head(s) = NL THEN LStrip(Tail(s)) ELSE s

RECURSIVE RStrip(_)
RStrip(s) ==
    IF s # <<>> /\ s[Len(s)] = NL THEN RStrip(SubSeq(s, 1, Len(s) - 1)) ELSE s

\* str.strip()
Strip(s) == RStrip(LStrip(s))

\* the Python test  `p in s`
Contains(s, p) ==
    \E i \in 0..(Len(s) - Len(p)) : SubSeq(s, i + 1, i + Len(p)) = p

\* all sequences over S of length at most n
SeqsUpTo(S, n) == UNION {[1..k -> S] : k \in 0..n}

----------------------------------------------------------------------------
(* _run_pg0: classification of a finished engine process *)

MaxStderrLen == 4

StderrTokens ==
    {"already", "ALREADY", "running", "not", "Not", "no", "instance", "boom", NL}

ExitCodes == {0, 1, 2}

\* a body that raises nothing
NoRaise == [exc |-> "none", msg |-> <<>>]

\* the body of `if check and result.returncode != 0:` and its fall-through
ClassifyMutPrecedence(check, returncode, stderrText) ==
    LET stderr == Strip(stderrText) IN
    IF check /\ returncode # 0
    THEN IF Contains(Lower(stderr), <<"no", "running", "instance">>)
              \/ Contains(Lower(stderr), <<"not", "running">>)
         THEN [exc |-> "Pg0NotRunningError", msg |-> stderr]
         ELSE IF Contains(Lower(stderr), <<"already", "running">>)
         THEN [exc |-> "Pg0AlreadyRunningError", msg |-> stderr]
         ELSE [exc |-> "Pg0Error",
               msg |-> IF stderr # <<>> THEN stderr
                       ELSE <<"pg0 command failed with code", ToString(returncode)>>]
    ELSE NoRaise

Classify(check, returncode, stderrText) ==
    LET stderr == Strip(stderrText) IN
    IF check /\ returncode # 0
    THEN IF Contains(Lower(stderr), <<"already", "running">>)
         THEN [exc |-> "Pg0AlreadyRunningError", msg |-> stderr]
         ELSE IF Contains(Lower(stderr), <<"no", "running", "instance">>)
                   \/ Contains(Lower(stderr), <<"not", "running">>)
         THEN [exc |-> "Pg0NotRunningError", msg |-> stderr]
         ELSE [exc |-> "Pg0Error",
               msg |-> IF stderr # <<>> THEN stderr
                       ELSE <<"pg0 command failed with code", ToString(returncode)>>]
    ELSE NoRaise

\* Specification of the classification alone: every (check, exit code, stderr)
InitClassify ==
    /\ call \in [check : BOOLEAN, returncode : ExitCodes,
                 stderr : SeqsUpTo(StderrTokens, MaxStderrLen)]
    /\ ret = NoRaise
    /\ phase = "ready"
    /\ NoFiles /\ NoLifecycle

ApplyClassify ==
    /\ phase = "ready"
    /\ ret' = Classify(call.check, call.returncode, call.stderr)
    /\ phase' = "done"
    /\ UNCHANGED <<call, fs, lifeVars>>

SpecClassify == InitClassify /\ [][ApplyClassify]_vars

\* what the claim calls "containing": the case-insensitive phrase test on the raw stderr
HasAlready(s) == \E i \in 1..(Len(s) - 1) :
                    /\ s[i] \in {"already", "ALREADY"}
                    /\ s[i + 1] = "running"
HasNotRunning(s) ==
    \/ \E i \in 1..(Len(s) - 1) : s[i] \in {"not", "Not"} /\ s[i + 1] = "running"
    \/ \E i \in 1..(Len(s) - 2) :
          s[i] = "no" /\ s[i + 1] = "running" /\ s[i + 2] = "instance"
OnlyBlank(s) == \A i \in 1..Len(s) : s[i] = NL

\* C10: the failure classification of a checked invocation is the stated total
\* function of (exit code, stderr): exit 0 raises nothing; nonzero with "already
\* running" is AlreadyRunning (first); else "no running instance"/"not running" is
\* NotRunning; else Pg0Error with the trimmed stderr, or the exit-code message when
\* the stderr is blank.  An unchecked invocation raises nothing.
C10_ClassificationTotal ==
    phase = "done" =>
        LET s == call.stderr IN
        /\ ret.exc \in {"none", "Pg0AlreadyRunningError", "Pg0NotRunningError", "Pg0Error"}
        /\ (call.returncode = 0 \/ ~call.check) => ret = NoRaise
        /\ (call.check /\ call.returncode # 0) =>
              /\ HasAlready(s) => ret.exc = "Pg0AlreadyRunningError"
              /\ (~HasAlready(s) /\ HasNotRunning(s)) => ret.exc = "Pg0NotRunningError"
              /\ (~HasAlready(s) /\ ~HasNotRunning(s)) =>
                    /\ ret.exc = "Pg0Error"
                    /\ ~OnlyBlank(s) =>
                          /\ ret.msg # <<>>
                          /\ Head(ret.msg) # NL /\ ret.msg[Len(ret.msg)] # NL
                          /\ \E i \in 0..Len(s) : SubSeq(s, i + 1, i + Len(ret.msg)) = ret.msg
                                                  /\ OnlyBlank(SubSeq(s, 1, i))
                                                  /\ OnlyBlank(SubSeq(s, i + Len(ret.msg) + 1, Len(s)))
                    /\ OnlyBlank(s) =>
                          ret.msg = <<"pg0 command failed with code", ToString(call.returncode)>>

\* a checked nonzero exit whose stderr holds both phrases was classified
C10_Witness ==
    /\ phase = "done"
    /\ call.check /\ call.returncode = 2
    /\ HasAlready(call.stderr) /\ HasNotRunning(call.stderr)
    /\ ret.exc = "Pg0AlreadyRunningError"

----------------------------------------------------------------------------
(* InstanceInfo.from_dict *)

\* Python values are written as the text of their literal
None == "None"
False == "False"
True == "True"

InfoKeys ==
    {"name", "running", "pid", "port", "version", "username", "database",
     "data_dir", "uri"}

\* dict.get(key, default)
DictGet(data, key, default) == IF key \in DOMAIN data THEN data[key] ELSE default

FromDictMutUri(data) ==
    [exc      |-> "none",
     name     |-> DictGet(data, "name", "default"),
     running  |-> DictGet(data, "running", False),
     pid      |-> DictGet(data, "pid", None),
     port     |-> DictGet(data, "port", None),
     version  |-> DictGet(data, "version", None),
     username |-> DictGet(data, "username", None),
     database |-> DictGet(data, "database", None),
     data_dir |-> DictGet(data, "data_dir", None),
     uri      |-> DictGet(data, "data_dir", None)]

FromDict(data) ==
    [exc      |-> "none",
     name     |-> DictGet(data, "name", "default"),
     running  |-> DictGet(data, "running", False),
     pid      |-> DictGet(data, "pid", None),
     port     |-> DictGet(data, "port", None),
     version  |-> DictGet(data, "version", None),
     username |-> DictGet(data, "username", None),
     database |-> DictGet(data, "database", None),
     data_dir |-> DictGet(data, "data_dir", None),
     uri      |-> DictGet(data, "uri", None)]

\* The dictionaries from_dict is applied to: for every key, absent or one of a few values
Absent == "<absent>"

DictChoices ==
    [name     : {Absent, "default", "db1"},
     running  : {Absent, True, False},
     pid      : {Absent, "1234", None},
     port     : {Absent, "5432"},
     version  : {Absent, "16.4"},
     username : {Absent, "postgres"},
     database : {Absent, "postgres"},
     data_dir : {Absent, "/data/db1"},
     uri      : {Absent, "postgresql://localhost:5432/postgres", None}]

DictOf(c) == [k \in {k \in InfoKeys : c[k] # Absent} |-> c[k]]

InitParse ==
    /\ call \in {[data |-> DictOf(c)] : c \in DictChoices}
    /\ ret = FromDict(<<>>)
    /\ phase = "ready"
    /\ NoFiles /\ NoLifecycle

ApplyFromDict ==
    /\ phase = "ready"
    /\ ret' = FromDict(call.data)
    /\ phase' = "done"
    /\ UNCHANGED <<call, fs, lifeVars>>

SpecParse == InitParse /\ [][ApplyFromDict]_vars

\* C7: from_dict fails on no subset of the keys; a present key is copied unchanged,
\* an absent one gets its default: name "default", running False, every other None.
C7_FromDictDefaults ==
    phase = "done" =>
        /\ ret.exc = "none"
        /\ \A k \in InfoKeys :
              /\ k \in DOMAIN call.data => ret[k] = call.data[k]
              /\ k \notin DOMAIN call.data =>
                    ret[k] = (IF k = "name" THEN "default"
                              ELSE IF k = "running" THEN "False" ELSE "None")

\* the minimal dictionary {"running": False} was parsed
C7_Witness ==
    /\ phase = "done"
    /\ DOMAIN call.data = {"running"}
    /\ call.data["running"] = "False"
    /\ ret.name = "default" /\ ret.uri = "None" /\ ret.pid = "None"

----------------------------------------------------------------------------
(* Pg0.__init__, Pg0.start's argument vector, and the module-level start() *)

MaxConfig == 2

Omitted == "<omitted>"      \* a parameter the caller does not pass

IntVal(i) == [t |-> "int", i |-> i]
NoneVal == [t |-> "none", i |-> 0]
OmittedVal == [t |-> "omitted", i |-> 0]

\* str(x) of an int or None
Str(v) == IF v.t = "int" THEN ToString(v.i) ELSE "None"

\* bool(x) of None or a str
Truthy(v) == v # None /\ v # ""

DefaultPort == 5432

Pg0Init(a) ==
    [name     |-> IF a.name = Omitted THEN "default" ELSE a.name,
     port     |-> IF a.port = OmittedVal THEN IntVal(DefaultPort) ELSE a.port,
     username |-> IF a.username = Omitted THEN "postgres" ELSE a.username,
     password |-> IF a.password = Omitted THEN "postgres" ELSE a.password,
     database |-> IF a.database = Omitted THEN "postgres" ELSE a.database,
     data_dir |-> IF a.data_dir = Omitted THEN None ELSE a.data_dir,
     \* config or {}
     config   |-> IF a.config.given /\ a.config.items # <<>> THEN a.config.items ELSE <<>>]

\* f"{key}={value}"
KeyValue(key, value) == key \o <<"=">> \o value

RECURSIVE ConfigArgs(_)
ConfigArgs(items) ==
    IF items = <<>> THEN <<>>
    ELSE << <<"-c">>, KeyValue(Head(items)[1], Head(items)[2]) >> \o ConfigArgs(Tail(items))

RECURSIVE ConfigArgsMutJoined(_)
ConfigArgsMutJoined(items) ==
    IF items = <<>> THEN <<>>
    ELSE << <<"-c">> \o KeyValue(Head(items)[1], Head(items)[2]) >>
         \o ConfigArgsMutJoined(Tail(items))

StartArgsMutJoined(self) ==
    << <<"start">>,
       <<"--name">>, <<self.name>>,
       <<"--port">>, <<Str(self.port)>>,
       <<"--username">>, <<self.username>>,
       <<"--password">>, <<self.password>>,
       <<"--database">>, <<self.database>> >>
    \o (IF Truthy(self.data_dir) THEN << <<"--data-dir">>, <<self.data_dir>> >> ELSE <<>>)
    \o ConfigArgsMutJoined(self.config)

\* the `args` list Pg0.start hands to _run_pg0
StartArgs(self) ==
    << <<"start">>,
       <<"--name">>, <<self.name>>,
       <<"--port">>, <<Str(self.port)>>,
       <<"--username">>, <<self.username>>,
       <<"--password">>, <<self.password>>,
       <<"--database">>, <<self.database>> >>
    \o (IF Truthy(self.data_dir) THEN << <<"--data-dir">>, <<self.data_dir>> >> ELSE <<>>)
    \o ConfigArgs(self.config)

\* start(name, port, username, password, database, **config): the handle it builds
ModuleStartHandle(a) ==
    Pg0Init([a EXCEPT !.data_dir = Omitted,
                      !.config = [given |-> TRUE, items |-> a.config.items]])

ConfigKeyTexts == {<<"work_mem">>, <<"a">>, <<"a", "=", "b">>}
ConfigValueTexts == {<<"c">>, <<"b", "=", "c">>}

\* a Python dict in iteration order: pairs with pairwise different keys
Mappings(n) ==
    {s \in SeqsUpTo(ConfigKeyTexts \X ConfigValueTexts, n) :
        \A i, j \in 1..Len(s) : i # j => s[i][1] # s[j][1]}

CtorArgs ==
    [via      : {"Pg0", "module"},
     name     : {Omitted, "db1"},
     port     : {OmittedVal, NoneVal, IntVal(5432), IntVal(15432)},
     username : {Omitted, "app"},
     password : {Omitted, "-c"},
     database : {Omitted},
     data_dir : {Omitted, None, "", "/data/db1", "-c"},
     config   : {[given |-> FALSE, items |-> <<>>]}
                \cup {[given |-> TRUE, items |-> m] : m \in Mappings(MaxConfig)}]

HandleOf(a) == IF a.via = "Pg0" THEN Pg0Init(a) ELSE ModuleStartHandle(a)

InitArgs ==
    /\ call \in CtorArgs
    /\ ret = [self |-> HandleOf(call), argv |-> <<>>]
    /\ phase = "ready"
    /\ NoFiles /\ NoLifecycle

ApplyStartArgs ==
    /\ phase = "ready"
    /\ ret' = [ret EXCEPT !.argv = StartArgs(ret.self)]
    /\ phase' = "done"
    /\ UNCHANGED <<call, fs, lifeVars>>

SpecArgs == InitArgs /\ [][ApplyStartArgs]_vars

PortUnset(a) == a.port \in {OmittedVal, NoneVal}

\* C5: for every handle whose port is unset, the argument vector of start() holds no
\* --port flag.
C5_NoPortFlagWhenUnset ==
    (phase = "done" /\ PortUnset(call)) =>
        \A i \in 1..Len(ret.argv) : ret.argv[i] # <<"--port">>

\* the mapping the caller gave: its entries, in order
GivenEntries(a) == IF a.config.given THEN a.config.items ELSE <<>>

PairsAt(argv, e) ==
    {i \in 1..(Len(argv) - 1) :
        argv[i] = <<"-c">> /\ argv[i + 1] = e[1] \o <<"=">> \o e[2]}

IsEntryText(a, x) ==
    \E j \in 1..Len(GivenEntries(a)) :
        x = GivenEntries(a)[j][1] \o <<"=">> \o GivenEntries(a)[j][2]

\* C6 as stated: in the whole argument vector every entry has exactly one adjacent
\* pair -c, key=value, and every -c is followed by the text of an entry.
C6_Original ==
    phase = "done" =>
        /\ \A j \in 1..Len(GivenEntries(call)) :
              Cardinality(PairsAt(ret.argv, GivenEntries(call)[j])) = 1
        /\ \A i \in 1..Len(ret.argv) :
              ret.argv[i] = <<"-c">> =>
                  i < Len(ret.argv) /\ IsEntryText(call, ret.argv[i + 1])

\* the arguments start() emits before the configuration: the verb, five named
\* options, and --data-dir when one is given
NamedLen(a) ==
    11 + (IF a.via = "Pg0" /\ a.data_dir \notin {Omitted, "None", ""} THEN 2 ELSE 0)

KeysPlain(a) ==
    \A j \in 1..Len(GivenEntries(a)) :
        \A i \in 1..Len(GivenEntries(a)[j][1]) : GivenEntries(a)[j][1][i] # "="

\* C6 (amended): for a mapping none of whose keys contains "=", the arguments after
\* the named options are two per entry, every entry has exactly one adjacent pair
\* -c, key=value among them, and every -c among them is followed by an entry's text.
C6_ConfigPairs ==
    (phase = "done" /\ KeysPlain(call)) =>
        LET tail == SubSeq(ret.argv, NamedLen(call) + 1, Len(ret.argv)) IN
        /\ Len(ret.argv) = NamedLen(call) + 2 * Len(GivenEntries(call))
        /\ \A j \in 1..Len(GivenEntries(call)) :
              Cardinality(PairsAt(tail, GivenEntries(call)[j])) = 1
        /\ \A i \in 1..Len(tail) :
              tail[i] = <<"-c">> => i < Len(tail) /\ IsEntryText(call, tail[i + 1])

\* a handle with two plain-keyed entries and a data directory was started
C6_Witness ==
    /\ phase = "done"
    /\ call.via = "Pg0"
    /\ call.data_dir = "/data/db1"
    /\ GivenEntries(call) = << <<(<<"work_mem">>), (<<"c">>)>>, <<(<<"a">>), (<<"b", "=", "c">>)>> >>
    /\ Len(ret.argv) = 17

----------------------------------------------------------------------------
(* Platform detection: _get_platform (pg0/__init__.py) and get_platform      *)
(* (hatch_build.py, build_binary.py).  A target "linux-x86_64-musl" is the   *)
(* sequence <<"linux", "x86_64", "musl">> of its dash-separated parts.       *)

\* the musl loader of an architecture, f"/lib/ld-musl-{arch}.so.1"
MuslLoader(arch) == <<"/lib/ld-musl-", arch, ".so.1">>

Target(t) == [exc |-> "none", target |-> t]
Unsupported(e) == [exc |-> e, target |-> <<>>]

\* `"musl" in (result.stdout + result.stderr).lower()` of a probe that ran
ProbeSaysMusl(ldd) == Contains(Lower(ldd.stdout \o ldd.stderr), <<"musl">>)

GetPlatformPg0MutNoLoader(env) ==
    LET system == LowerTok(env.system)
        machine == LowerTok(env.machine)
        arch_str == IF machine \in {"x86_64", "amd64"} THEN "x86_64" ELSE "aarch64"
    IN
    IF system = "darwin" THEN Target(<<"darwin", "aarch64">>)
    ELSE IF system = "linux" THEN
        IF machine \notin {"x86_64", "amd64", "aarch64", "arm64"}
        THEN Unsupported("Pg0NotFoundError")
        ELSE IF env.ldd.kind = "ran" /\ ProbeSaysMusl(env.ldd)
        THEN Target(<<"linux", arch_str, "musl">>)
        ELSE IF env.ldd.kind \in {"FileNotFoundError", "TimeoutExpired"}
                /\ \E loader \in {MuslLoader(arch_str), MuslLoader("x86_64"),
                                  MuslLoader("aarch64")} : loader \in env.files
        THEN Target(<<"linux", arch_str, "musl">>)
        ELSE Target(<<"linux", arch_str, "gnu">>)
    ELSE IF system = "windows" THEN Target(<<"windows", "x86_64">>)
    ELSE Unsupported("Pg0NotFoundError")

\* pg0/__init__.py: the ldd probe has a timeout, and three loader paths are looked at
GetPlatformPg0(env) ==
    LET system == LowerTok(env.system)
        machine == LowerTok(env.machine)
        arch_str == IF machine \in {"x86_64", "amd64"} THEN "x86_64" ELSE "aarch64"
    IN
    IF system = "darwin" THEN Target(<<"darwin", "aarch64">>)
    ELSE IF system = "linux" THEN
        IF machine \notin {"x86_64", "amd64", "aarch64", "arm64"}
        THEN Unsupported("Pg0NotFoundError")
        ELSE IF env.ldd.kind = "ran" /\ ProbeSaysMusl(env.ldd)
        THEN Target(<<"linux", arch_str, "musl">>)
        \* except (FileNotFoundError, subprocess.TimeoutExpired): pass
        ELSE IF \E loader \in {MuslLoader(arch_str), MuslLoader("x86_64"),
                               MuslLoader("aarch64")} : loader \in env.files
        THEN Target(<<"linux", arch_str, "musl">>)
        ELSE Target(<<"linux", arch_str, "gnu">>)
    ELSE IF system = "windows" THEN Target(<<"windows", "x86_64">>)
    ELSE Unsupported("Pg0NotFoundError")

\* the Linux branch the two build scripts share: no timeout, the loader of the
\* detected architecture alone
LinuxTargetBuild(machine, env) ==
    LET arch == IF machine \in {"x86_64", "amd64"} THEN "x86_64" ELSE "aarch64" IN
    IF machine \notin {"x86_64", "amd64", "aarch64", "arm64"}
    THEN Unsupported("RuntimeError")
    ELSE IF env.ldd.kind = "ran" /\ ProbeSaysMusl(env.ldd)
    THEN Target(<<"linux", arch, "musl">>)
    \* except FileNotFoundError: pass
    ELSE IF MuslLoader(arch) \in env.files
    THEN Target(<<"linux", arch, "musl">>)
    ELSE Target(<<"linux", arch, "gnu">>)

\* hatch_build.py
GetPlatformHatch(env) ==
    LET system == LowerTok(env.system)
        machine == LowerTok(env.machine)
    IN
    IF system = "darwin"
    THEN Target(IF machine = "arm64" THEN <<"darwin", "aarch64">> ELSE <<"darwin", "x86_64">>)
    ELSE IF system = "linux" THEN LinuxTargetBuild(machine, env)
    ELSE IF system = "windows" THEN Target(<<"windows", "x86_64">>)
    ELSE Unsupported("RuntimeError")

\* build_binary.py
GetPlatformBuild(env) ==
    LET system == LowerTok(env.system)
        machine == LowerTok(env.machine)
    IN
    IF system = "darwin" THEN Target(<<"darwin", "aarch64">>)
    ELSE IF system = "linux" THEN LinuxTargetBuild(machine, env)
    ELSE IF system = "windows" THEN Target(<<"windows", "x86_64">>)
    ELSE Unsupported("RuntimeError")

\* what `ldd --version` can do: be missing, time out (where a timeout is set), or
\* run and print
LddRan(rc, out, err) == [kind |-> "ran", returncode |-> rc, stdout |-> out, stderr |-> err]

LddOutcomes ==
    {[kind |-> "FileNotFoundError", returncode |-> 0, stdout |-> <<>>, stderr |-> <<>>],
     [kind |-> "TimeoutExpired", returncode |-> 0, stdout |-> <<>>, stderr |-> <<>>],
     LddRan(0, <<"ldd", "(GNU libc)", "2.39">>, <<>>),
     LddRan(1, <<>>, <<"musl", "libc", "(x86_64)">>),
     LddRan(0, <<"MUSL", "libc">>, <<>>),
     LddRan(1, <<>>, <<"ldd:", "exited", "with", "unknown", "exit", "code">>),
     LddRan(127, <<>>, <<>>)}

PlatformEnvs ==
    {e \in [variant : {"pg0", "hatch_build", "build_binary"},
            system  : {"Linux", "Darwin", "Windows", "FreeBSD"},
            machine : {"x86_64", "amd64", "AMD64", "aarch64", "arm64", "riscv64"},
            ldd     : LddOutcomes,
            files   : SUBSET {MuslLoader("x86_64"), MuslLoader("aarch64")}] :
        \* subprocess.run raises TimeoutExpired only when given a timeout
        e.ldd.kind = "TimeoutExpired" => e.variant = "pg0"}

InitPlatform ==
    /\ call \in PlatformEnvs
    /\ ret = Target(<<>>)
    /\ phase = "ready"
    /\ NoFiles /\ NoLifecycle

ApplyGetPlatform ==
    /\ phase = "ready"
    /\ ret' = CASE call.variant = "pg0"          -> GetPlatformPg0(call)
                [] call.variant = "hatch_build"  -> GetPlatformHatch(call)
                [] call.variant = "build_binary" -> GetPlatformBuild(call)
    /\ phase' = "done"
    /\ UNCHANGED <<call, fs, lifeVars>>

SpecPlatform == InitPlatform /\ [][ApplyGetPlatform]_vars

IsX86(m) == m \in {"x86_64", "amd64", "AMD64"}
IsArm(m) == m \in {"aarch64", "arm64"}

MuslMarker(ldd) ==
    /\ ldd.kind = "ran"
    /\ \E i \in 1..Len(ldd.stdout \o ldd.stderr) :
          (ldd.stdout \o ldd.stderr)[i] \in {"musl", "MUSL"}

ArchTagOf(m) == IF IsX86(m) THEN "x86_64" ELSE "aarch64"

----------------------------------------------------------------------------
(* download_binary of the two build scripts (build_binary.py, hatch_build.py) *)

NoFile == [exists |-> FALSE, content |-> "", exec |-> FALSE]
FileOf(c) == [exists |-> TRUE, content |-> c, exec |-> FALSE]

\* the keys of CHECKSUMS
ChecksumTargets ==
    {<<"darwin", "aarch64">>,
     <<"linux", "x86_64", "gnu">>, <<"linux", "x86_64", "musl">>,
     <<"linux", "aarch64", "gnu">>, <<"linux", "aarch64", "musl">>,
     <<"windows", "x86_64">>}

\* hashlib.sha256(content).hexdigest()
Sha256(content) ==
    CASE content = "genuine"  -> "5c1e...a9"
      [] content = "tampered" -> "e07b...34"
      [] content = "old"      -> "77aa...02"
      [] OTHER                -> "d41d...00"

\* CHECKSUMS as the source has it, and as a release that fills it in has it
ChecksumsInSource == [t \in ChecksumTargets |-> ""]
ChecksumsFilled == [t \in ChecksumTargets |-> Sha256("genuine")]

\* CHECKSUMS.get(plat, "")
ExpectedChecksum(table, plat) == IF plat \in DOMAIN table THEN table[plat] ELSE ""

ChecksumVerdictMutAccept(table, plat, content) ==
    IF ExpectedChecksum(table, plat) # "" THEN "verified" ELSE "unverified"

\* build_binary.py, "Verify checksum if available"
ChecksumVerdict(table, plat, content) ==
    IF ExpectedChecksum(table, plat) # ""
    THEN IF Sha256(content) # ExpectedChecksum(table, plat) THEN "mismatch" ELSE "verified"
    ELSE "unverified"

DownloadRuns ==
    [variant : {"build_binary", "hatch_build"},
     plat    : ChecksumTargets \cup {<<"freebsd", "x86_64">>},
     table   : {ChecksumsInSource, ChecksumsFilled},
     \* what the release URL serves: an artifact, nothing, or a transfer that breaks off
     served  : {"genuine", "tampered", "unreachable", "truncated"},
     \* the binary already at the final path
     prior   : {NoFile, [exists |-> TRUE, content |-> "old", exec |-> TRUE]}]

InitBuild ==
    /\ call \in DownloadRuns
    /\ ret = [exc |-> "none"]
    /\ phase = "ready"
    /\ fs = [tmp |-> NoFile, bin |-> call.prior]
    /\ NoLifecycle

\* urllib.request.urlretrieve(url, tmp_path)
Download ==
    /\ phase = "ready"
    /\ \/ /\ call.served = "unreachable"
          /\ ret' = [exc |-> "URLError"]
          /\ phase' = "raised"
          /\ UNCHANGED fs
       \/ /\ call.served = "truncated"
          /\ ret' = [exc |-> "ContentTooShortError"]
          /\ phase' = "raised"
          /\ fs' = [fs EXCEPT !.tmp = FileOf("truncated")]
       \/ /\ call.served \in {"genuine", "tampered"}
          /\ fs' = [fs EXCEPT !.tmp = FileOf(call.served)]
          /\ phase' = "downloaded"
          /\ UNCHANGED ret
    /\ UNCHANGED <<call, lifeVars>>

\* build_binary.py only: the checksum step
VerifyChecksum ==
    /\ phase = "downloaded"
    /\ call.variant = "build_binary"
    /\ IF ChecksumVerdict(call.table, call.plat, fs.tmp.content) = "mismatch"
       THEN /\ fs' = [fs EXCEPT !.tmp = NoFile]        \* tmp_path.unlink()
            /\ ret' = [exc |-> "RuntimeError"]
            /\ phase' = "raised"
       ELSE /\ phase' = "checked"
            /\ UNCHANGED <<fs, ret>>
    /\ UNCHANGED <<call, lifeVars>>

\* tmp_path.rename(binary_path)
Rename ==
    /\ \/ phase = "checked"
       \/ phase = "downloaded" /\ call.variant = "hatch_build"
    /\ fs' = [tmp |-> NoFile, bin |-> fs.tmp]
    /\ phase' = "renamed"
    /\ UNCHANGED <<call, ret, lifeVars>>

\* binary_path.chmod(... | S_IXUSR | S_IXGRP | S_IXOTH) unless plat.startswith("windows")
Chmod ==
    /\ phase = "renamed"
    /\ fs' = IF Head(call.plat) # "windows" THEN [fs EXCEPT !.bin.exec = TRUE] ELSE fs
    /\ phase' = "done"
    /\ UNCHANGED <<call, ret, lifeVars>>

NextBuild == Download \/ VerifyChecksum \/ Rename \/ Chmod

SpecBuild == InitBuild /\ [][NextBuild]_vars

Downloaded == phase \notin {"ready"} /\ ret.exc \notin {"URLError", "ContentTooShortError"}

Installed == phase \in {"renamed", "done"}

EntryFor(run) == IF run.plat \in DOMAIN run.table THEN run.table[run.plat] ELSE "none"

\* C8 as stated: whatever is renamed into the final path has the digest the table
\* holds for its target, and a download with another digest ends raised, its
\* temporary file gone.
C8_Original ==
    /\ Installed => Sha256(fs.bin.content) = EntryFor(call)
    /\ (Downloaded /\ Sha256(call.served) # EntryFor(call)) =>
          /\ ~Installed /\ fs.bin = call.prior
          /\ phase = "raised" => ~fs.tmp.exists

\* C8 (amended): in build_binary.download_binary, when the table has a non-empty
\* entry for the target and the downloaded artifact's digest differs from it, the
\* step raises, the temporary file is deleted and the final path keeps what it had.
C8_MismatchRejected ==
    (/\ call.variant = "build_binary"
     /\ EntryFor(call) \notin {"", "none"}
     /\ Downloaded
     /\ Sha256(call.served) # EntryFor(call)) =>
        /\ phase \in {"downloaded", "raised"}
        /\ fs.bin = call.prior
        /\ phase = "raised" => (ret.exc = "RuntimeError" /\ ~fs.tmp.exists)

\* a tampered download was rejected against a filled-in table
C8_Witness ==
    /\ call.variant = "build_binary"
    /\ call.table = ChecksumsFilled
    /\ call.served = "tampered"
    /\ phase = "raised" /\ ret.exc = "RuntimeError"
    /\ ~fs.tmp.exists

----------------------------------------------------------------------------
(* The engine binary, as its command line contract describes it.  The client *)
(* sees it only through exit code, stdout and stderr of one subprocess.       *)

InstanceNames == {"default", "db1"}

EngineStates == {"absent", "stopped", "running"}

NoText == [json |-> FALSE, obj |-> <<>>]
JsonText(obj) == [json |-> TRUE, obj |-> obj]

\* a stdout that is a JSON array of objects
JsonArray(items) == [json |-> TRUE, obj |-> <<>>, items |-> items]
IsArray(text) == "items" \in DOMAIN text

Reply(rc, out, err, post) ==
    [returncode |-> rc, stdout |-> out, stderr |-> err, post |-> post]

\* what a failing command may print
StderrSamples ==
    {<<"no", "running", "instance">>,
     <<"instance", "ALREADY", "running", NL>>}

\* how `stop` and `drop` may end: exit 0, or nonzero with one of the texts
StopExits == {[rc |-> 0, err |-> <<>>]} \cup {[rc |-> 1, err |-> e] : e \in StderrSamples}

\* what `start` prints for a running instance: some text holding "already running"
AlreadyRunningTexts ==
    {<<"instance", "already", "running">>,
     <<"Not", "started:", "instance", "ALREADY", "running", NL>>}

RunningInfo(name) ==
    [name |-> name, running |-> True, pid |-> "1234", port |-> "5432",
     version |-> "16.4", username |-> "postgres", database |-> "postgres",
     data_dir |-> "/data/db1", uri |-> "postgresql://localhost:5432/postgres"]

\* the objects `info -o json` prints for a name that was never started or was dropped
AbsentInfos(name) ==
    {[running |-> False],
     [name |-> name, running |-> False, uri |-> None]}

\* the objects `info -o json` prints for an instance that exists and is stopped
StoppedInfos(name) ==
    {[name |-> name, running |-> False],
     [name |-> name, running |-> False, port |-> "5432", data_dir |-> "/data/db1",
      uri |-> "postgresql://localhost:5432/postgres"]}

\* how `info` may end for an instance that is not running: exit code and stderr
NotRunningExits == {[rc |-> 0, err |-> <<>>], [rc |-> 1, err |-> <<"no", "running", "instance">>]}

\* the replies of the engine to `verb` for an instance in state st
EngineReplies(verb, name, st) ==
    CASE verb = "start" ->
            IF st = "running"
            THEN {Reply(1, NoText, e, "running") : e \in AlreadyRunningTexts}
            ELSE {Reply(0, NoText, <<>>, "running"),
                  Reply(1, NoText, <<"boom", NL>>, st)}
      [] verb = "stop" ->
            {Reply(x.rc, NoText, x.err, IF st = "running" THEN "stopped" ELSE st) :
                x \in StopExits}
      [] verb = "drop" ->
            {Reply(x.rc, NoText, x.err, "absent") : x \in StopExits}
      [] verb = "info" ->
            IF st = "running"
            THEN {Reply(0, JsonText(RunningInfo(name)), <<>>, st)}
            ELSE {Reply(x.rc, JsonText(obj), x.err, st) :
                    x \in NotRunningExits,
                    obj \in IF st = "absent" THEN AbsentInfos(name) ELSE StoppedInfos(name)}
      [] verb = "psql" ->
            IF st = "running"
            THEN {Reply(0, NoText, <<>>, st), Reply(1, NoText, <<"boom", NL>>, st)}
            ELSE {Reply(1, NoText, <<"no", "running", "instance">>, st)}

----------------------------------------------------------------------------
(* _find_pg0 and _run_pg0 *)

\* install(version=None) as _find_pg0 calls it, with no binary at the install path:
\* the release is fetched and moved into place, or a step fails (the steps are the
\* actions of SpecInstall)
AutoInstall(files) ==
    {[ok |-> TRUE, where |-> "install", fs |-> [files EXCEPT !.install = TRUE]],
     [ok |-> FALSE, where |-> "none", fs |-> files],
     \* the move or the chmod failed: a file is at the install path all the same
     [ok |-> FALSE, where |-> "none", fs |-> [files EXCEPT !.install = TRUE]]}

\* shutil.which("pg0"), then the install location, then install()
FindPg0(files) ==
    IF files.path THEN {[ok |-> TRUE, where |-> "path", fs |-> files]}
    ELSE IF files.install THEN {[ok |-> TRUE, where |-> "install", fs |-> files]}
    ELSE AutoInstall(files)

\* what starting the resolved binary can do
Launches == {"ok", "FileNotFoundError", "PermissionError"}

NoReply == Reply(0, NoText, <<>>, "absent")

\* the instance a command names: the argument after --name
ArgName(argv) == argv[3][1]

Outcome(files, launched, reply, eng, exc) ==
    [fs |-> files, launched |-> launched, reply |-> reply, engine |-> eng, exc |-> exc]

\* what _run_pg0 raises once the binary is resolved: the launch failing with
\* FileNotFoundError is the only exception it catches
RunResult(check, launch, r) ==
    CASE launch = "FileNotFoundError" -> "Pg0NotFoundError"
      [] launch = "PermissionError" -> "PermissionError"
      [] launch = "ok" -> Classify(check, r.returncode, r.stderr).exc

\* _run_pg0(*argv, check=check): every way the call can end in the current state
RunPg0(argv, check) ==
    UNION {
        IF ~res.ok
        THEN {Outcome(res.fs, FALSE, NoReply, engine, "Pg0NotFoundError")}
        ELSE UNION {
            CASE launch = "FileNotFoundError" ->
                    \* the binary went away after it was resolved
                    {Outcome([res.fs EXCEPT ![res.where] = FALSE], FALSE, NoReply, engine,
                             RunResult(check, launch, NoReply))}
              [] launch = "PermissionError" ->
                    {Outcome(res.fs, FALSE, NoReply, engine, RunResult(check, launch, NoReply))}
              [] launch = "ok" ->
                    {Outcome(res.fs, TRUE, r,
                             [engine EXCEPT ![ArgName(argv)] = r.post],
                             RunResult(check, launch, r)) :
                        r \in EngineReplies(argv[1][1], ArgName(argv), engine[ArgName(argv)])}
            : launch \in Launches}
        : res \in FindPg0(fs)}

----------------------------------------------------------------------------
(* The Pg0 handle and the module-level verbs *)

NumHandles == 1

Handles == 1..NumHandles

\* 0 stands for the caller of the module-level functions; handle[0] is the Pg0
\* object the module-level start() builds for the duration of the call
Callers == 0..NumHandles

StartCallMutUnchecked(self) == [argv |-> StartArgs(self), check |-> FALSE]

\* _run_pg0(*args)
StartCall(self) == [argv |-> StartArgs(self), check |-> TRUE]

StopArgsMutDefaultName(name) == << <<"stop">>, <<"--name">>, <<"default">> >>

StopArgs(name) == << <<"stop">>, <<"--name">>, <<name>> >>

StopCallMutChecked(name) == [argv |-> StopArgs(name), check |-> TRUE]

\* _run_pg0("stop", "--name", name, check=False)
StopCall(name) == [argv |-> StopArgs(name), check |-> FALSE]

\* _run_pg0("drop", "--name", name, ["--force"], check=False)
DropCall(name, force) ==
    [argv  |-> << <<"drop">>, <<"--name">>, <<name>> >>
               \o (IF force THEN << <<"--force">> >> ELSE <<>>),
     check |-> FALSE]

InfoCallMutChecked(name) ==
    [argv  |-> << <<"info">>, <<"--name">>, <<name>>, <<"-o">>, <<"json">> >>,
     check |-> TRUE]

\* _run_pg0("info", "--name", name, "-o", "json", check=False)
InfoCall(name) ==
    [argv  |-> << <<"info">>, <<"--name">>, <<name>>, <<"-o">>, <<"json">> >>,
     check |-> FALSE]

PsqlCallMutUnchecked(name, args) ==
    [argv |-> << <<"psql">>, <<"--name">>, <<name>> >> \o args, check |-> FALSE]

\* _run_pg0("psql", "--name", self.name, *args)
PsqlCall(name, args) ==
    [argv |-> << <<"psql">>, <<"--name">>, <<name>> >> \o args, check |-> TRUE]

\* execute(sql) is psql("-c", sql)
ExecuteArgs(sql) == << <<"-c">>, <<sql>> >>

NoVal == [FromDict(<<>>) EXCEPT !.exc = "n/a"]

InfoResultMutCached(o) ==
    IF last.verb = "info" /\ last.exc = "none" THEN [exc |-> "none", val |-> last.val]
    ELSE IF o.exc # "none" THEN [exc |-> o.exc, val |-> NoVal]
    ELSE IF ~o.reply.stdout.json THEN [exc |-> "JSONDecodeError", val |-> NoVal]
    ELSE IF IsArray(o.reply.stdout) THEN [exc |-> "AttributeError", val |-> NoVal]
    ELSE [exc |-> FromDict(o.reply.stdout.obj).exc, val |-> FromDict(o.reply.stdout.obj)]

\* json.loads(result.stdout) and InstanceInfo.from_dict(data)
InfoResult(o) ==
    IF o.exc # "none" THEN [exc |-> o.exc, val |-> NoVal]
    ELSE IF ~o.reply.stdout.json THEN [exc |-> "JSONDecodeError", val |-> NoVal]
    \* a list has no .get
    ELSE IF IsArray(o.reply.stdout) THEN [exc |-> "AttributeError", val |-> NoVal]
    ELSE [exc |-> FromDict(o.reply.stdout.obj).exc, val |-> FromDict(o.reply.stdout.obj)]

\* __exit__: try: self.stop()  except Pg0NotRunningError: pass
ExitCall(self, exc_type) == StopCall(self.name)

ExitRaises(exc) == IF exc = "Pg0NotRunningError" THEN "none" ELSE exc

\* the record of a finished operation: who called it, the command issued (verb and
\* name), the instance's state before and after it, whether the engine ran, its exit
\* code, and what the operation raised or returned
Done(op, h, c, o, exc, val) ==
    [op |-> op, h |-> h, verb |-> c.argv[1][1], name |-> ArgName(c.argv), from |-> ctx[h],
     pre |-> engine[ArgName(c.argv)], post |-> o.engine[ArgName(c.argv)],
     launched |-> o.launched, returncode |-> o.reply.returncode,
     exc |-> exc, val |-> val]

NoOp ==
    [op |-> "none", h |-> 0, verb |-> "", name |-> "", from |-> "out",
     pre |-> "absent", post |-> "absent", launched |-> FALSE, returncode |-> 0,
     exc |-> "none", val |-> NoVal]

\* the handles of the model: any name, the other parameters left at their defaults
LifeCtorArgs ==
    {a \in CtorArgs :
        /\ a.via = "Pg0" /\ a.port = OmittedVal /\ a.username = Omitted
        /\ a.password = Omitted /\ a.data_dir = Omitted /\ ~a.config.given}

\* the arguments of the module-level start()
ModuleStartArgs ==
    {a \in CtorArgs :
        /\ a.via = "module" /\ a.port = OmittedVal /\ a.username = Omitted
        /\ a.password = Omitted /\ a.data_dir = Omitted /\ ~a.config.given}

NoHandle == Pg0Init([name |-> Omitted, port |-> OmittedVal, username |-> Omitted,
                     password |-> Omitted, database |-> Omitted, data_dir |-> Omitted,
                     config |-> [given |-> FALSE, items |-> <<>>]])

Init ==
    /\ engine \in [InstanceNames -> EngineStates]
    /\ fs \in [path : BOOLEAN, install : BOOLEAN]
    /\ handle \in [Callers -> {HandleOf(a) : a \in LifeCtorArgs}]
    /\ handle[0] = NoHandle
    /\ ctx = [h \in Callers |-> "out"]
    /\ pend = [h \in Callers |-> "none"]
    /\ last = NoOp
    /\ call = <<>> /\ ret = <<>> /\ phase = "idle"

\* an exception that leaves an operation called in a `with` body either is handled
\* in the body or leaves the block
AfterRaise(h, exc) ==
    IF exc # "none" /\ ctx[h] = "in"
    THEN {ctx, [ctx EXCEPT ![h] = "unwinding"]} ELSE {ctx}

\* the client is one thread: an operation begins when no other is half way
Idle == \A k \in Callers : pend[k] = "none"

Free(h) == Idle /\ ctx[h] \in {"out", "in"}

\* Pg0.start, up to the return of the start command
Start(h) ==
    /\ Free(h)
    /\ \E o \in RunPg0(StartCall(handle[h]).argv, StartCall(handle[h]).check) :
          /\ fs' = o.fs /\ engine' = o.engine
          /\ pend' = [pend EXCEPT ![h] = IF o.exc = "none" THEN "start" ELSE "none"]
          /\ ctx' \in AfterRaise(h, o.exc)
          /\ last' = Done("start", h, StartCall(handle[h]), o, o.exc, NoVal)
    /\ UNCHANGED <<handle, pureVars>>

\* Pg0.start: return self.info()
StartInfo(h) ==
    /\ pend[h] = "start"
    /\ \E o \in RunPg0(InfoCall(handle[h].name).argv, InfoCall(handle[h].name).check) :
          /\ fs' = o.fs /\ engine' = o.engine
          /\ pend' = [pend EXCEPT ![h] = "none"]
          /\ ctx' \in AfterRaise(h, InfoResult(o).exc)
          /\ last' = Done("start.info", h, InfoCall(handle[h].name), o,
                          InfoResult(o).exc, InfoResult(o).val)
    \* the object the module-level start() built is gone when it returns
    /\ handle' = IF h = 0 THEN [handle EXCEPT ![0] = NoHandle] ELSE handle
    /\ UNCHANGED pureVars

\* __enter__: self.start(), up to the return of the start command
Enter(h) ==
    /\ Idle /\ ctx[h] = "out"
    /\ \E o \in RunPg0(StartCall(handle[h]).argv, StartCall(handle[h]).check) :
          /\ fs' = o.fs /\ engine' = o.engine
          /\ pend' = [pend EXCEPT ![h] = IF o.exc = "none" THEN "enter" ELSE "none"]
          /\ last' = Done("__enter__", h, StartCall(handle[h]), o, o.exc, NoVal)
    /\ UNCHANGED <<handle, ctx, pureVars>>

\* __enter__: the info() that ends self.start(), then `return self`
EnterInfo(h) ==
    /\ pend[h] = "enter"
    /\ \E o \in RunPg0(InfoCall(handle[h].name).argv, InfoCall(handle[h].name).check) :
          /\ fs' = o.fs /\ engine' = o.engine
          /\ pend' = [pend EXCEPT ![h] = "none"]
          /\ ctx' = [ctx EXCEPT ![h] = IF InfoResult(o).exc = "none" THEN "in" ELSE "out"]
          /\ last' = Done("__enter__.info", h, InfoCall(handle[h].name), o,
                          InfoResult(o).exc, InfoResult(o).val)
    /\ UNCHANGED <<handle, pureVars>>

\* the body of the `with` block raises
BodyRaises(h) ==
    /\ Idle /\ ctx[h] = "in"
    /\ ctx' = [ctx EXCEPT ![h] = "unwinding"]
    /\ UNCHANGED <<fs, engine, handle, pend, last, pureVars>>

\* __exit__, on leaving the block normally or by an exception
Exit(h) ==
    /\ Idle /\ ctx[h] \in {"in", "unwinding"}
    /\ \E o \in RunPg0(ExitCall(handle[h], ctx[h]).argv, ExitCall(handle[h], ctx[h]).check) :
          /\ fs' = o.fs /\ engine' = o.engine
          /\ ctx' = [ctx EXCEPT ![h] = "out"]
          /\ last' = Done("__exit__", h, ExitCall(handle[h], ctx[h]), o,
                          ExitRaises(o.exc), NoVal)
    /\ UNCHANGED <<handle, pend, pureVars>>

\* an operation that is one engine command
Simple(op, h, c) ==
    \E o \in RunPg0(c.argv, c.check) :
        /\ fs' = o.fs /\ engine' = o.engine
        /\ ctx' \in AfterRaise(h, o.exc)
        /\ last' = Done(op, h, c, o, o.exc, NoVal)
        /\ UNCHANGED <<handle, pend, pureVars>>

\* Pg0.stop, and the module-level stop(name) for h = 0
Stop(h, n) ==
    /\ Free(h) /\ (h # 0 => n = handle[h].name)
    /\ Simple("stop", h, StopCall(n))

\* Pg0.drop, and the module-level drop(name, force) for h = 0
Drop(h, n) ==
    /\ Free(h) /\ (h # 0 => n = handle[h].name)
    /\ \E force \in BOOLEAN : Simple("drop", h, DropCall(n, force))

\* Pg0.psql
Psql(h) == Free(h) /\ Simple("psql", h, PsqlCall(handle[h].name, << <<"-l">> >>))

\* Pg0.execute
Execute(h) == Free(h) /\ Simple("execute", h, PsqlCall(handle[h].name, ExecuteArgs("SELECT 1;")))

\* Pg0.info, and the module-level info(name) for h = 0
Info(h, n) ==
    /\ Free(h) /\ (h # 0 => n = handle[h].name)
    /\ \E o \in RunPg0(InfoCall(n).argv, InfoCall(n).check) :
          /\ fs' = o.fs /\ engine' = o.engine
          /\ ctx' \in AfterRaise(h, InfoResult(o).exc)
          /\ last' = Done("info", h, InfoCall(n), o, InfoResult(o).exc, InfoResult(o).val)
    /\ UNCHANGED <<handle, pend, pureVars>>

\* the properties Pg0.uri and Pg0.running: self.info().uri and self.info().running
Property(h, p) ==
    /\ Free(h)
    /\ \E o \in RunPg0(InfoCall(handle[h].name).argv, InfoCall(handle[h].name).check) :
          /\ fs' = o.fs /\ engine' = o.engine
          /\ ctx' \in AfterRaise(h, InfoResult(o).exc)
          /\ last' = Done(p, h, InfoCall(handle[h].name), o,
                          InfoResult(o).exc, InfoResult(o).val)
    /\ UNCHANGED <<handle, pend, pureVars>>

\* the module-level start(...): Pg0(...).start(), up to the return of the start command
ModStart(a) ==
    /\ Free(0)
    /\ \E o \in RunPg0(StartCall(HandleOf(a)).argv, StartCall(HandleOf(a)).check) :
          /\ fs' = o.fs /\ engine' = o.engine
          /\ handle' = [handle EXCEPT ![0] = IF o.exc = "none" THEN HandleOf(a) ELSE NoHandle]
          /\ pend' = [pend EXCEPT ![0] = IF o.exc = "none" THEN "start" ELSE "none"]
          /\ last' = Done("start", 0, StartCall(HandleOf(a)), o, o.exc, NoVal)
    /\ UNCHANGED <<ctx, pureVars>>

\* another actor (another process, the command line) starts, stops or drops an instance
OtherActor(n) ==
    /\ \E st \in EngineStates \ {engine[n]} : engine' = [engine EXCEPT ![n] = st]
    /\ UNCHANGED <<fs, handle, ctx, pend, last, pureVars>>

\* the operator puts a pg0 on the search path or at the install location, or removes one
BinaryChanges ==
    /\ \E f \in [path : BOOLEAN, install : BOOLEAN] \ {fs} : fs' = f
    /\ UNCHANGED <<lifeVars, pureVars>>

Next ==
    \/ \E h \in Handles :
          Start(h) \/ Enter(h) \/ EnterInfo(h) \/ BodyRaises(h) \/ Exit(h)
          \/ Psql(h) \/ Execute(h)
    \/ \E h \in Callers : StartInfo(h)
    \/ \E h \in Handles, p \in {"uri", "running"} : Property(h, p)
    \/ \E h \in Callers, n \in InstanceNames : Stop(h, n) \/ Drop(h, n) \/ Info(h, n)
    \/ \E n \in InstanceNames : OtherActor(n)
    \/ \E a \in ModuleStartArgs : ModStart(a)
    \/ BinaryChanges

Spec == Init /\ [][Next]_vars

----------------------------------------------------------------------------
(* Claims about the lifecycle verbs *)

\* the last operation ran the engine and got its reply
EngineReplied == last.op # "none" /\ last.launched

\* C1: Pg0.stop(), Pg0.drop() and the module-level stop()/drop() raise nothing,
\* whatever state the named instance was in and whatever exit code and stderr the
\* engine returned for the command.
C1_StopDropNeverRaise ==
    (last.op \in {"stop", "drop"} /\ EngineReplied) => last.exc = "none"

\* a stop of a name that was never created, answered with a nonzero exit code
C1_Witness ==
    /\ last.op = "stop" /\ last.h # 0 /\ EngineReplied
    /\ last.pre = "absent" /\ last.returncode = 1
    /\ last.exc = "none"

\* C2: start() for a name whose instance is running raises exactly
\* Pg0AlreadyRunningError and the instance is still running afterwards.
C2_StartOnRunning ==
    (last.verb = "start" /\ last.pre = "running" /\ EngineReplied) =>
        /\ last.exc = "Pg0AlreadyRunningError"
        /\ last.post = "running"

\* a handle's start() met a running instance
C2_Witness ==
    /\ last.op = "start" /\ last.h # 0 /\ EngineReplied
    /\ last.pre = "running" /\ last.returncode # 0
    /\ last.exc = "Pg0AlreadyRunningError"

\* C3: info() for a name that was never started, or was dropped, returns without
\* raising an InstanceInfo with running False and uri None.
C3_InfoNeverStarted ==
    (last.verb = "info" /\ last.pre = "absent" /\ EngineReplied) =>
        /\ last.exc = "none"
        /\ last.val.running = False
        /\ last.val.uri = None

\* info() of an absent name returned, the engine having exited nonzero
C3_Witness ==
    /\ last.op = "info" /\ EngineReplied
    /\ last.pre = "absent" /\ last.returncode = 1
    /\ last.exc = "none" /\ last.val.running = False /\ last.val.uri = None

\* what holds of the last operation of a `with` block
C4_State ==
    \* entry issues start for the handle's name, and a successful start leaves it running
    /\ last.op = "__enter__" =>
          /\ last.verb = "start" /\ last.name = handle[last.h].name
          /\ (last.exc = "none" => last.post = "running")
    \* inside the block, info of the running instance says running
    /\ (last.verb = "info" /\ last.from = "in" /\ EngineReplied /\ last.pre = "running") =>
          last.val.running = True
    \* the exit issues stop for the handle's name, and a stop that ran leaves it not running
    /\ last.op = "__exit__" =>
          /\ last.verb = "stop" /\ last.name = handle[last.h].name
          /\ (EngineReplied => last.post # "running")

\* what holds of the steps around a `with` block
C4_Step ==
    \* the block is entered only by a start that succeeded
    /\ \A h \in Handles :
          (ctx[h] = "out" /\ ctx'[h] = "in") =>
              /\ pend[h] = "enter" /\ last.op = "__enter__" /\ last.exc = "none"
    \* the block is left only through __exit__, from the body or from an exception
    /\ \A h \in Handles :
          (ctx[h] \in {"in", "unwinding"} /\ ctx'[h] = "out") =>
              /\ last'.op = "__exit__" /\ last'.h = h /\ last'.from = ctx[h]
              /\ last'.verb = "stop" /\ last'.name = handle[h].name
    \* the info that follows an exit whose stop ran, the instance being as the stop
    \* left it, reports running False
    /\ (/\ last.op = "__exit__" /\ EngineReplied /\ engine[last.name] = last.post
        /\ last'.verb = "info" /\ last'.name = last.name /\ last'.launched) =>
              /\ last'.exc = "none"
              /\ last'.val.running = False

\* C4: a Pg0 handle used as a context manager starts its instance on entry, so that
\* it is running inside the block, and whenever the block is left, normally or by an
\* exception of the body, a stop command for the handle's name has been issued, after
\* which, no other actor having touched the name, info reports running False.
C4_ContextManager == []C4_State /\ [][C4_Step]_vars

\* the block was left by an exception and the stop that ran stopped the instance
C4_Witness ==
    /\ last.op = "__exit__" /\ last.from = "unwinding" /\ EngineReplied
    /\ last.name = "db1" /\ last.pre = "running" /\ last.post = "stopped"
    /\ engine["db1"] = "stopped"

----------------------------------------------------------------------------
(* _find_pg0 and install, step by step *)

\* a binary that a completed install left at the install path
InstalledFile(c) == [exists |-> TRUE, content |-> c, exec |-> TRUE]

\* what can be at the install path before a call: nothing, a binary installed
\* earlier, or a file that was never made executable
PriorBinaries == {NoFile, InstalledFile("old"), FileOf("old")}

\* the calls: _find_pg0(), which ends in install(version=None), and install(version, force)
InstallRuns ==
    [entry : {"_find_pg0"}, version : {None}, force : {FALSE},
     bundled : BOOLEAN, path : BOOLEAN, prior : PriorBinaries,
     win32 : BOOLEAN, samefs : BOOLEAN]
    \cup
    [entry : {"install"}, version : {None, "v0.1.0"}, force : BOOLEAN,
     bundled : BOOLEAN, path : BOOLEAN, prior : PriorBinaries,
     win32 : BOOLEAN, samefs : BOOLEAN]

NoBinary == [exc |-> "none", where |-> "none"]

Found(where) == [exc |-> "none", where |-> where]

Raised(exc) == [exc |-> exc, where |-> "none"]

InitInstall ==
    /\ call \in InstallRuns
    /\ ret = NoBinary
    /\ phase = IF call.entry = "_find_pg0" THEN "which" ELSE "installed?"
    /\ fs = [bundled |-> call.bundled, path |-> call.path, bin |-> call.prior, tmp |-> NoFile]
    /\ NoLifecycle

\* path = shutil.which("pg0"); if path: return path
Which ==
    /\ phase = "which"
    /\ IF fs.path
       THEN ret' = Found("path") /\ phase' = "done"
       ELSE ret' = ret /\ phase' = "exists?"
    /\ UNCHANGED <<call, fs, lifeVars>>

\* if binary_path.exists(): return str(binary_path); else install(version=None)
InstallPathExists ==
    /\ phase = "exists?"
    /\ IF fs.bin.exists
       THEN ret' = Found("install") /\ phase' = "done"
       ELSE ret' = ret /\ phase' = "installed?"
    /\ UNCHANGED <<call, fs, lifeVars>>

\* install: if binary_path.exists() and not force: return binary_path
AlreadyInstalled ==
    /\ phase = "installed?"
    /\ IF fs.bin.exists /\ ~call.force
       THEN ret' = Found("install") /\ phase' = "done"
       ELSE ret' = ret /\ phase' = (IF call.version = None THEN "version" ELSE "platform")
    /\ UNCHANGED <<call, fs, lifeVars>>

\* version = _get_latest_version(): the release API answers, or Pg0NotFoundError
GetLatestVersion ==
    /\ phase = "version"
    /\ \/ ret' = ret /\ phase' = "platform"
       \/ ret' = Raised("Pg0NotFoundError") /\ phase' = "raised"
    /\ UNCHANGED <<call, fs, lifeVars>>

\* plat = _get_platform(): a target, or Pg0NotFoundError for an unsupported one
InstallGetPlatform ==
    /\ phase = "platform"
    /\ \/ ret' = ret /\ phase' = "mkdir"
       \/ ret' = Raised("Pg0NotFoundError") /\ phase' = "raised"
    /\ UNCHANGED <<call, fs, lifeVars>>

\* install_dir.mkdir(parents=True, exist_ok=True), outside the try block
Mkdir ==
    /\ phase = "mkdir"
    /\ \/ ret' = ret /\ phase' = "mktemp"
       \/ ret' = Raised("OSError") /\ phase' = "raised"
    /\ UNCHANGED <<call, fs, lifeVars>>

\* the handler of the try block: unlink the temporary file if it exists, then raise
Cleanup(files) == [files EXCEPT !.tmp = NoFile]

\* with tempfile.NamedTemporaryFile(delete=False) as tmp: tmp_path = Path(tmp.name)
\* when it fails tmp_path is unbound and the handler's tmp_path.exists() raises
MakeTemp ==
    /\ phase = "mktemp"
    /\ \/ /\ fs' = [fs EXCEPT !.tmp = FileOf("empty")]
          /\ ret' = ret /\ phase' = "fetch"
       \/ /\ fs' = fs
          /\ ret' = Raised("UnboundLocalError") /\ phase' = "raised"
    /\ UNCHANGED <<call, lifeVars>>

\* urlopen(url, timeout=120), response.read(), tmp_path.write_bytes(...)
InstallFetch ==
    /\ phase = "fetch"
    /\ \/ /\ fs' = [fs EXCEPT !.tmp = FileOf("new")]
          /\ ret' = ret /\ phase' = "move"
       \/ \E written \in {"empty", "partial"} :
             \* the request or the read failed, or the write stopped half way
             /\ fs' = Cleanup([fs EXCEPT !.tmp = FileOf(written)])
             /\ ret' = Raised("Pg0NotFoundError") /\ phase' = "raised"
    /\ UNCHANGED <<call, lifeVars>>

\* shutil.move(tmp, binary_path): os.rename when it can, else copy2 then unlink
InstallMove ==
    /\ phase = "move"
    /\ \/ /\ fs' = [fs EXCEPT !.bin = fs.tmp, !.tmp = NoFile]
          /\ ret' = ret /\ phase' = "chmod"
       \/ \* the rename failed and there is nothing to fall back on
          /\ call.samefs
          /\ fs' = Cleanup(fs)
          /\ ret' = Raised("Pg0NotFoundError") /\ phase' = "raised"
       \/ \* the copy to the other file system stopped half way
          /\ ~call.samefs
          /\ fs' = Cleanup([fs EXCEPT !.bin = FileOf("partial")])
          /\ ret' = Raised("Pg0NotFoundError") /\ phase' = "raised"
    /\ UNCHANGED <<call, lifeVars>>

\* if sys.platform != "win32": binary_path.chmod(mode | S_IXUSR | S_IXGRP | S_IXOTH)
InstallChmod ==
    /\ phase = "chmod"
    /\ \/ /\ fs' = IF call.win32 THEN fs ELSE [fs EXCEPT !.bin.exec = TRUE]
          /\ ret' = Found("install") /\ phase' = "done"
       \/ \* stat() or chmod() failed: the handler finds no temporary file and raises
          /\ ~call.win32
          /\ fs' = Cleanup(fs)
          /\ ret' = Raised("Pg0NotFoundError") /\ phase' = "raised"
    /\ UNCHANGED <<call, lifeVars>>

NextInstall ==
    \/ Which \/ InstallPathExists \/ AlreadyInstalled
    \/ GetLatestVersion \/ InstallGetPlatform \/ Mkdir
    \/ MakeTemp \/ InstallFetch \/ InstallMove \/ InstallChmod

SpecInstall == InitInstall /\ [][NextInstall]_vars

\* install() has begun to acquire a binary
Acquiring == phase \in {"version", "platform", "mkdir", "mktemp", "fetch", "move", "chmod"}

\* the first of the four places that had a binary when the call began
FirstHit(c) ==
    IF c.bundled THEN "bundled"
    ELSE IF c.path THEN "path"
    ELSE IF c.prior.exists THEN "install"
    ELSE "acquire"

\* C11: _find_pg0 returns the bundled binary if there is one, else the one on the
\* search path, else the one in the install directory, and begins to download only
\* when none of the three exists.
C11_ResolutionOrder ==
    call.entry = "_find_pg0" =>
        /\ (phase = "done" /\ FirstHit(call) # "acquire") => ret.where = FirstHit(call)
        /\ (Acquiring \/ phase = "raised") => FirstHit(call) = "acquire"

\* the order of the places _find_pg0 does look at: search path, install directory,
\* and acquisition only when both are empty
SourceOrder ==
    call.entry = "_find_pg0" =>
        /\ (phase = "done" /\ call.path) => ret.where = "path"
        /\ (phase = "done" /\ ~call.path) => ret.where = "install"
        /\ (Acquiring \/ phase = "raised") => (~call.path /\ ~call.prior.exists)

\* C16: install() is all or nothing: when it raises, the install path holds what it
\* held before and no temporary file is left; when it returns, the install path holds
\* a binary that is executable on Unix; and with a binary present and force False it
\* returns at once, touching nothing.
C16_AllOrNothing ==
    call.entry = "install" =>
        /\ phase = "raised" => (fs.bin = call.prior /\ ~fs.tmp.exists)
        /\ phase = "done" => (fs.bin.exists /\ (~call.win32 => fs.bin.exec))
        /\ (call.prior.exists /\ ~call.force) =>
              (phase \in {"installed?", "done"} /\ fs.bin = call.prior /\ ~fs.tmp.exists)

\* what install() does keep: no temporary file outlives the call, a failure before the
\* move leaves the install path alone, and a download that completes is executable
InstallKeeps ==
    call.entry = "install" =>
        /\ phase \in {"raised", "done"} => ~fs.tmp.exists
        /\ (phase = "raised" /\ fs.bin # call.prior) =>
              fs.bin \in {FileOf("partial"), FileOf("new")}
        /\ (phase = "done" /\ fs.bin # call.prior) =>
              fs.bin = (IF call.win32 THEN FileOf("new") ELSE InstalledFile("new"))

----------------------------------------------------------------------------
(* Every public operation against every reply of the engine *)

MaxReplyLen == 3

\* _run_pg0("list", "-o", "json", check=False)
ListCall == [argv |-> << <<"list">>, <<"-o">>, <<"json">> >>, check |-> FALSE]

\* [InstanceInfo.from_dict(item) for item in json.loads(result.stdout)]
ListResult(o) ==
    IF o.exc # "none" THEN [exc |-> o.exc, val |-> <<>>]
    ELSE IF ~o.reply.stdout.json THEN [exc |-> "JSONDecodeError", val |-> <<>>]
    ELSE IF ~IsArray(o.reply.stdout)
         \* iterating an object yields its keys, and a str has no .get
         THEN IF DOMAIN o.reply.stdout.obj = {} THEN [exc |-> "none", val |-> <<>>]
              ELSE [exc |-> "AttributeError", val |-> <<>>]
    ELSE [exc |-> "none",
          val |-> [i \in 1..Len(o.reply.stdout.items) |-> FromDict(o.reply.stdout.items[i])]]

PublicOps == {"start", "stop", "drop", "info", "list_instances", "psql", "execute"}

Queries == {"info", "list_instances"}

\* the engine command an operation runs first, for the default instance
OpCall(op) ==
    CASE op = "start" -> StartCall(NoHandle)
      [] op = "stop" -> StopCall(NoHandle.name)
      [] op = "drop" -> DropCall(NoHandle.name, TRUE)
      [] op = "info" -> InfoCall(NoHandle.name)
      [] op = "list_instances" -> ListCall
      [] op = "psql" -> PsqlCall(NoHandle.name, << <<"-l">> >>)
      [] op = "execute" -> PsqlCall(NoHandle.name, ExecuteArgs("SELECT 1;"))

\* what an operation makes of the engine's reply: what it raises, and for the two
\* queries what it returns
OpResult(op, launch, r) ==
    LET o == [exc |-> RunResult(OpCall(op).check, launch, r), reply |-> r] IN
    CASE op = "info" -> InfoResult(o)
      [] op = "list_instances" -> ListResult(o)
      [] OTHER -> [exc |-> o.exc, val |-> NoVal]

\* what the engine may print on stdout: nothing, a message, one object, an array
StdoutTexts ==
    {NoText,
     JsonText(<<>>),
     JsonText([running |-> False]),
     JsonText(RunningInfo("default")),
     JsonArray(<<>>),
     JsonArray(<<RunningInfo("default")>>),
     JsonArray(<<[name |-> "db1", running |-> False], RunningInfo("default")>>)}

\* a reply of the engine to be read by op: only the queries read stdout
RepliesFor(op) ==
    {Reply(rc, out, err, "absent") :
        rc \in ExitCodes,
        out \in IF op \in Queries THEN StdoutTexts ELSE {NoText},
        err \in SeqsUpTo(StderrTokens, MaxReplyLen)}

InitVerbs ==
    /\ \E op \in PublicOps :
          \/ \E r \in RepliesFor(op) : call = [op |-> op, launch |-> "ok", reply |-> r]
          \/ \E l \in Launches \ {"ok"} : call = [op |-> op, launch |-> l, reply |-> NoReply]
    /\ ret = [exc |-> "none", val |-> NoVal]
    /\ phase = "ready"
    /\ NoFiles /\ NoLifecycle

ApplyVerb ==
    /\ phase = "ready"
    /\ ret' = OpResult(call.op, call.launch, call.reply)
    /\ phase' = "done"
    /\ UNCHANGED <<call, fs, lifeVars>>

SpecVerbs == InitVerbs /\ [][ApplyVerb]_vars

\* the engine ran and exited nonzero
EngineFailed == phase = "done" /\ call.launch = "ok" /\ call.reply.returncode # 0

\* C12: info() and list_instances() raise nothing because the engine command
\* failed: whenever the engine exits nonzero, whatever it printed, info returns an
\* InstanceInfo that is not running and list_instances returns an empty list.
C12_QueriesSwallowFailure ==
    (EngineFailed /\ call.op \in Queries) =>
        /\ ret.exc = "none"
        /\ call.op = "info" => ret.val.running = False
        /\ call.op = "list_instances" => Len(ret.val) = 0

\* what the two queries do keep: a nonzero exit is never classified, so neither
\* raises one of the client's own errors, and what they return is what stdout says
QueriesUnchecked ==
    (phase = "done" /\ call.launch = "ok" /\ call.op \in Queries) =>
        /\ ret.exc \in {"none", "JSONDecodeError", "AttributeError"}
        /\ ret.exc = "JSONDecodeError" <=> ~call.reply.stdout.json

\* the operations that run their command in non-failing mode
Unchecked == {"stop", "drop", "info", "list_instances"}

\* C13 as stated: for every exit code and stderr, none of stop, drop, info,
\* list_instances, psql and execute raises Pg0AlreadyRunningError.
C13_Original ==
    (phase = "done" /\ call.op # "start") => ret.exc # "Pg0AlreadyRunningError"

\* C13 (amended): for every exit code and stderr, none of stop, drop, info and
\* list_instances raises Pg0AlreadyRunningError; psql and execute run checked and,
\* like start, raise it exactly when the engine exits nonzero with a stderr that
\* holds "already running".
C13_OnlyCheckedRaiseAlreadyRunning ==
    (phase = "done" /\ call.launch = "ok") =>
        /\ call.op \in Unchecked => ret.exc # "Pg0AlreadyRunningError"
        /\ call.op \notin Unchecked =>
              (ret.exc = "Pg0AlreadyRunningError"
                  <=> (call.reply.returncode # 0 /\ HasAlready(call.reply.stderr)))

\* drop met a nonzero exit whose stderr says "already running", and raised nothing
C13_Witness ==
    /\ EngineFailed /\ call.op = "drop"
    /\ HasAlready(call.reply.stderr)
    /\ ret.exc = "none"

\* C14: when the resolved binary cannot be launched, every operation, checked or
\* not, raises Pg0NotFoundError: no other error, and no result.
C14_LaunchFailureIsNotFound ==
    (phase = "done" /\ call.launch # "ok") => ret.exc = "Pg0NotFoundError"

\* what does hold: a binary that is gone at launch is Pg0NotFoundError for every
\* operation, whatever its mode
MissingBinaryIsNotFound ==
    (phase = "done" /\ call.launch = "FileNotFoundError") => ret.exc = "Pg0NotFoundError"

----------------------------------------------------------------------------
(* Claims about the handle's state *)

\* the reads of a handle: info() and the properties running and uri
Reads == {"info", "running", "uri"}

\* what holds of the last read
C15_State ==
    \* a read by a handle is an info command for the handle's name
    /\ (last.op \in Reads /\ last.h # 0) =>
          (last.verb = "info" /\ last.name = handle[last.h].name)
    \* and what it returns is the engine's state when the command ran
    /\ (last.op \in Reads /\ EngineReplied /\ last.exc = "none") =>
          /\ last.val.running = True <=> last.pre = "running"
          /\ last.pre = "running" => last.val = FromDict(RunningInfo(last.name))
          /\ last.pre = "absent" => last.val.uri = None

\* no operation changes a field of a handle
C15_Step == \A h \in Handles : handle'[h] = handle[h]

\* C15: a handle stores no lifecycle state: every read of info(), running or uri
\* issues a fresh engine query, no operation modifies a field of the handle, and so
\* after any interleaving of operations by this handle, by other callers and by
\* external actors the value returned is the engine's state for that name at the
\* moment of the query.
C15_NoCachedState == []C15_State /\ [][C15_Step]_vars

\* the running property was read in a `with` block and told the instance's state of
\* that moment, which another actor has changed since
C15_Witness ==
    /\ last.op = "running" /\ last.h # 0 /\ EngineReplied
    /\ last.from = "in" /\ last.pre = "running" /\ last.val.running = True
    /\ engine[last.name] = "absent"

====
